---- MODULE Spec2Model ----
(***************************************************************************)
(* Model of diray/api_client.py: SystemeCalculClient, the HTTP client of   *)
(* the Systeme de Calcul API, with the process-wide Django cache used by   *)
(* get_student_profile and the remote server as a nondeterministic         *)
(* environment.                                                            *)
(***************************************************************************)
EXTENDS Integers, Sequences, FiniteSets, TLC

VARIABLES
    base_url,   \* self.base_url, read from settings at construction
    api_key,    \* self.api_key, read from settings at construction
    cache,      \* django.core.cache.cache: a set of entries [key, value, exp]
    now,        \* wall clock, in seconds
    last        \* record of the most recent operation invocation

vars == <<base_url, api_key, cache, now, last>>

----------------------------------------------------------------------------
(* Python values.  Every value is a record [type, atom, items]; a dict or  *)
(* list keeps its members as <<key, value>> pairs in items.                *)

PyNone == [type |-> "none", atom |-> "", items |-> {}]
PyStr(s) == [type |-> "str", atom |-> s, items |-> {}]
PyInt(n) == [type |-> "int", atom |-> ToString(n), items |-> {}]
PyBool(b) == [type |-> "bool", atom |-> IF b THEN "True" ELSE "False", items |-> {}]
Dict(S) == [type |-> "dict", atom |-> "", items |-> S]
List(S) == [type |-> "list", atom |-> "", items |-> S]

\* Python truthiness, as used by `not x` and `if x:`
Truthy(v) ==
    CASE v.type = "none" -> FALSE
      [] v.type = "bool" -> v.atom = "True"
      [] v.type = "str"  -> v.atom # ""
      [] v.type = "int"  -> v.atom # "0"
      [] OTHER           -> v.items # {}

\* only a dict has .get; on any other value the attribute lookup raises
HasGet(v) == v.type = "dict"

Keys(d) == {p[1] : p \in d.items}

\* dict.get(k, default)
Get(d, k, default) ==
    IF k \in Keys(d) THEN (CHOOSE p \in d.items : p[1] = k)[2] ELSE default

----------------------------------------------------------------------------
(* Bounds and inputs *)

MaxTime == 300
Deltas == {299, 300}

TTL == 300
PrefixLen == 20

ApiUrl == "https://api.example.com/"

Stem == [i \in 1..PrefixLen |-> "a"]
TokenA == Stem \o <<"x">>
TokenB == Stem \o <<"y">>
TokenC == <<"b", "c">>
Tokens == {TokenA, TokenB, TokenC}

Emails == {"a@b.com", "c@d.org"}
Passwords == {"pw"}
StudentIds == {1}

Statuses == {200, 304, 401}

JsonBodies ==
    { Dict({}),
      Dict({<<"error", PyStr("invalid credentials")>>}),
      Dict({<<"student", PyStr("s1")>>, <<"token", PyStr("abc")>>,
            <<"expiresIn", PyStr("12h")>>}),
      List({}) }

\* What the network does with one request: a transport fault, or a
\* completed response with a status and a body (JSON or plain text).
Fault(k) == [kind |-> k, status |-> 0, json |-> FALSE, body |-> PyNone, text |-> k]
Response(s, j, b, t) == [kind |-> "response", status |-> s, json |-> j, body |-> b, text |-> t]

Outcomes ==
    {Fault("Timeout"), Fault("ConnectionError"), Fault("RequestException")}
    \cup {Response(s, TRUE, b, "") : s \in Statuses, b \in JsonBodies}
    \cup {Response(s, FALSE, PyNone, "oops") : s \in Statuses}

----------------------------------------------------------------------------
(* _make_request *)

\* The request handed to requests.request: the URL is the base URL and the
\* endpoint joined at one slash; bearer tells whether the Authorization
\* header is set, which it is only for a non-empty token.
Request(method, endpoint, data, token) ==
    [method |-> method, url |-> <<base_url.atom, endpoint>>, json |-> data,
     bearer |-> token # <<>>]

Returned(v, sent) ==
    [exc |-> "none", value |-> v, message |-> PyNone, status_code |-> PyNone,
     response_data |-> PyNone, sent |-> sent]

APIError(msg, status, data, sent) ==
    [exc |-> "SystemeCalculAPIError", value |-> PyNone, message |-> msg,
     status_code |-> status, response_data |-> data, sent |-> sent]

AttributeError(sent) ==
    [exc |-> "AttributeError", value |-> PyNone, message |-> PyNone,
     status_code |-> PyNone, response_data |-> PyNone, sent |-> sent]

\* requests.Response.ok as read at line 114: false exactly for 4xx and 5xx
ok(status) == ~(400 <= status /\ status < 600)

\* response.json(), with the ValueError fallback {'raw': response.text}
ParseBody(o) == IF o.json THEN o.body ELSE Dict({<<"raw", PyStr(o.text)>>})

make_request(method, endpoint, data, token, o) ==
    IF ~Truthy(base_url)
    THEN APIError(PyStr("API URL not configured"), PyNone, PyNone, <<>>)
    ELSE LET sent == <<Request(method, endpoint, data, token)>>
             response_data == ParseBody(o)
         IN CASE o.kind = "Timeout" ->
                    APIError(PyStr("Request timeout - API server not responding"),
                             PyNone, PyNone, sent)
              [] o.kind = "ConnectionError" ->
                    APIError(PyStr("Connection error - Cannot reach API server"),
                             PyNone, PyNone, sent)
              [] o.kind = "RequestException" ->
                    APIError(PyStr("Request failed: " \o o.text), PyNone, PyNone, sent)
              [] OTHER ->
                    IF ~ok(o.status)
                    THEN IF HasGet(response_data)
                         THEN APIError(Get(response_data, "error",
                                           PyStr("HTTP " \o ToString(o.status))),
                                       PyInt(o.status), response_data, sent)
                         ELSE AttributeError(sent)
                    ELSE Returned(response_data, sent)

----------------------------------------------------------------------------
(* The cache (django.core.cache): get returns None for an absent or       *)
(* expired key, set replaces the key's entry and expires it after timeout. *)

Entries(key) == {e \in cache : e.key = key}

cache_get(key) ==
    IF \E e \in Entries(key) : now < e.exp
    THEN (CHOOSE e \in Entries(key) : now < e.exp).value
    ELSE PyNone

cache_set(key, value, timeout) ==
    (cache \ Entries(key)) \cup {[key |-> key, value |-> value, exp |-> now + timeout]}

Take(s, n) == SubSeq(s, 1, IF Len(s) < n THEN Len(s) ELSE n)

CacheKey(token) == <<"student_profile_", Take(token, PrefixLen)>>

----------------------------------------------------------------------------
(* The domain operations.  Each yields what the invocation did: the        *)
(* exception that left it (or "none"), the value returned, the requests    *)
(* sent, and the cache afterwards.                                         *)

Return(v, sent, c) == [exc |-> "none", ret |-> v, sent |-> sent, cache |-> c]
Raise(e, sent, c) == [exc |-> e, ret |-> PyNone, sent |-> sent, cache |-> c]

Failure(msg) == Dict({<<"success", PyBool(FALSE)>>, <<"error", msg>>})

LoginData(email, password) ==
    Dict({<<"email", PyStr(email)>>, <<"password", PyStr(password)>>,
          <<"app_key", api_key>>})

AuthSuccess(response) ==
    Dict({<<"success", PyBool(TRUE)>>,
          <<"student", Get(response, "student", PyNone)>>,
          <<"token", Get(response, "token", PyNone)>>,
          <<"expires_in", Get(response, "expiresIn", PyStr("24h"))>>})

\* authenticate_student without the API key check of lines 146-150
authenticate_student_nocheck(email, password, o) ==
    LET r == make_request("POST", "/auth/external-login", LoginData(email, password), <<>>, o)
    IN CASE r.exc = "none" ->
               IF HasGet(r.value)
               THEN Return(AuthSuccess(r.value), r.sent, cache)
               ELSE Raise("AttributeError", r.sent, cache)
         [] r.exc = "SystemeCalculAPIError" -> Return(Failure(r.message), r.sent, cache)
         [] OTHER -> Raise(r.exc, r.sent, cache)

\* authenticate_student whose failure result also carries an empty token
authenticate_student_partial(email, password, o) ==
    LET r == authenticate_student_nocheck(email, password, o)
        partial(msg) == Dict({<<"success", PyBool(FALSE)>>, <<"error", msg>>,
                              <<"token", PyNone>>})
    IN IF ~Truthy(api_key)
       THEN Return(partial(PyStr("API key not configured")), <<>>, cache)
       ELSE IF r.exc = "none" /\ "error" \in Keys(r.ret)
            THEN Return(partial(Get(r.ret, "error", PyNone)), r.sent, cache)
            ELSE r

authenticate_student(email, password, o) ==
    IF ~Truthy(api_key)
    THEN Return(Failure(PyStr("API key not configured")), <<>>, cache)
    ELSE LET r == make_request("POST", "/auth/external-login",
                               LoginData(email, password), <<>>, o)
         IN CASE r.exc = "none" ->
                    IF HasGet(r.value)
                    THEN Return(AuthSuccess(r.value), r.sent, cache)
                    ELSE Raise("AttributeError", r.sent, cache)
              [] r.exc = "SystemeCalculAPIError" ->
                    Return(Failure(r.message), r.sent, cache)
              [] OTHER -> Raise(r.exc, r.sent, cache)

\* get_student_profile that stores the entry again on a cache hit
get_student_profile_touch(token, o) ==
    LET cache_key == CacheKey(token)
        cached_data == cache_get(cache_key)
    IN IF Truthy(cached_data)
       THEN Return(cached_data, <<>>, cache_set(cache_key, cached_data, TTL))
       ELSE LET r == make_request("GET", "/students/me/profile", PyNone, token, o)
            IN CASE r.exc = "none" ->
                       Return(r.value, r.sent, cache_set(cache_key, r.value, TTL))
                 [] r.exc = "SystemeCalculAPIError" ->
                       Return(Failure(r.message), r.sent, cache)
                 [] OTHER -> Raise(r.exc, r.sent, cache)

get_student_profile(token, o) ==
    LET cache_key == CacheKey(token)
        cached_data == cache_get(cache_key)
    IN IF Truthy(cached_data)
       THEN Return(cached_data, <<>>, cache)
       ELSE LET r == make_request("GET", "/students/me/profile", PyNone, token, o)
            IN CASE r.exc = "none" ->
                       Return(r.value, r.sent, cache_set(cache_key, r.value, TTL))
                 [] r.exc = "SystemeCalculAPIError" ->
                       Return(Failure(r.message), r.sent, cache)
                 [] OTHER -> Raise(r.exc, r.sent, cache)

FormationsFailure(msg) ==
    Dict({<<"success", PyBool(FALSE)>>, <<"error", msg>>, <<"formations", List({})>>})

\* get_student_formations that sends the request again after a failure
get_student_formations_retry(student_id, token, o) ==
    LET endpoint == "/students/" \o ToString(student_id) \o "/formations"
        r == make_request("GET", endpoint, PyNone, token, o)
        again == make_request("GET", endpoint, PyNone, token, o)
    IN CASE r.exc = "none" -> Return(r.value, r.sent, cache)
         [] r.exc = "SystemeCalculAPIError" ->
               IF again.exc = "none"
               THEN Return(again.value, r.sent \o again.sent, cache)
               ELSE Return(FormationsFailure(r.message), r.sent \o again.sent, cache)
         [] OTHER -> Raise(r.exc, r.sent, cache)

get_student_formations(student_id, token, o) ==
    LET r == make_request("GET", "/students/" \o ToString(student_id) \o "/formations",
                          PyNone, token, o)
    IN CASE r.exc = "none" -> Return(r.value, r.sent, cache)
         [] r.exc = "SystemeCalculAPIError" ->
               Return(FormationsFailure(r.message), r.sent, cache)
         [] OTHER -> Raise(r.exc, r.sent, cache)

get_student_schedule(student_id, token, o) ==
    LET r == make_request("GET", "/students/" \o ToString(student_id) \o "/schedule",
                          PyNone, token, o)
    IN CASE r.exc = "none" -> Return(r.value, r.sent, cache)
         [] r.exc = "SystemeCalculAPIError" ->
               Return(Dict({<<"success", PyBool(FALSE)>>, <<"error", r.message>>,
                            <<"schedule", List({})>>}), r.sent, cache)
         [] OTHER -> Raise(r.exc, r.sent, cache)

verify_token(token, o) ==
    LET r == make_request("GET", "/auth/me", PyNone, token, o)
    IN CASE r.exc = "none" -> Return(PyBool(TRUE), r.sent, cache)
         [] r.exc = "SystemeCalculAPIError" -> Return(PyBool(FALSE), r.sent, cache)
         [] OTHER -> Raise(r.exc, r.sent, cache)

refresh_token(token, o) ==
    LET r == make_request("POST", "/auth/refresh", PyNone, token, o)
    IN CASE r.exc = "none" ->
               IF HasGet(r.value)
               THEN Return(Get(r.value, "token", PyNone), r.sent, cache)
               ELSE Raise("AttributeError", r.sent, cache)
         [] r.exc = "SystemeCalculAPIError" -> Return(PyNone, r.sent, cache)
         [] OTHER -> Raise(r.exc, r.sent, cache)

----------------------------------------------------------------------------
(* The state machine: the host application calls the operations in any     *)
(* order while time passes; the remote server answers each request with    *)
(* any outcome.  last records the invocation a step made: the operation,   *)
(* the token of a profile call, what the server did, the clock, what the   *)
(* cache held for the key, and the result.                                 *)

Settings == {PyNone, PyStr(""), PyStr(ApiUrl)}
KeySettings == {PyNone, PyStr("k3y")}

\* What the cache holds for the token's key when an invocation starts
Lookup(token) ==
    IF Entries(CacheKey(token)) = {} THEN "absent"
    ELSE IF \E e \in Entries(CacheKey(token)) : now < e.exp THEN "live" ELSE "expired"

NoError == [message |-> PyNone, status_code |-> PyNone, response_data |-> PyNone]

NoCall ==
    [op |-> "none", token |-> <<>>, outcome |-> Fault("Timeout"), time |-> 0,
     lookup |-> "unused", exc |-> "none", ret |-> PyNone, sent |-> <<>>,
     error |-> NoError]

Init ==
    /\ base_url \in Settings
    /\ api_key \in KeySettings
    /\ cache = {}
    /\ now = 0
    /\ last = NoCall

Do(op, o, r) ==
    /\ last' = [op |-> op, token |-> <<>>, outcome |-> o, time |-> now,
                lookup |-> "unused", exc |-> r.exc, ret |-> r.ret, sent |-> r.sent,
                error |-> NoError]
    /\ cache' = r.cache
    /\ UNCHANGED <<base_url, api_key, now>>

\* _make_request called on its own
MakeRequest ==
    \E method \in {"GET", "POST"}, token \in {TokenC}, o \in Outcomes :
        LET r == make_request(method, "/auth/me", PyNone, token, o)
        IN /\ last' = [op |-> "_make_request", token |-> <<>>, outcome |-> o,
                       time |-> now, lookup |-> "unused", exc |-> r.exc,
                       ret |-> r.value, sent |-> r.sent,
                       error |-> [message |-> r.message, status_code |-> r.status_code,
                                  response_data |-> r.response_data]]
           /\ UNCHANGED <<base_url, api_key, cache, now>>

AuthenticateStudent ==
    \E email \in Emails, password \in Passwords, o \in Outcomes :
        Do("authenticate_student", o, authenticate_student(email, password, o))

GetStudentProfile ==
    \E token \in Tokens, o \in Outcomes :
        LET r == get_student_profile(token, o)
        IN /\ last' = [op |-> "get_student_profile", token |-> token, outcome |-> o,
                       time |-> now, lookup |-> Lookup(token), exc |-> r.exc,
                       ret |-> r.ret, sent |-> r.sent, error |-> NoError]
           /\ cache' = r.cache
           /\ UNCHANGED <<base_url, api_key, now>>

GetStudentFormations ==
    \E student_id \in StudentIds, token \in Tokens, o \in Outcomes :
        Do("get_student_formations", o, get_student_formations(student_id, token, o))

GetStudentSchedule ==
    \E student_id \in StudentIds, token \in Tokens, o \in Outcomes :
        Do("get_student_schedule", o, get_student_schedule(student_id, token, o))

VerifyToken ==
    \E token \in Tokens, o \in Outcomes :
        Do("verify_token", o, verify_token(token, o))

RefreshToken ==
    \E token \in Tokens, o \in Outcomes :
        Do("refresh_token", o, refresh_token(token, o))

Tick ==
    \E d \in Deltas :
        /\ now + d <= MaxTime
        /\ now' = now + d
        /\ UNCHANGED <<base_url, api_key, cache, last>>

Next ==
    \/ MakeRequest
    \/ AuthenticateStudent
    \/ GetStudentProfile
    \/ GetStudentFormations
    \/ GetStudentSchedule
    \/ VerifyToken
    \/ RefreshToken
    \/ Tick

Spec == Init /\ [][Next]_vars

\* The operations with the clock stopped
NextOps ==
    \/ MakeRequest
    \/ AuthenticateStudent
    \/ GetStudentProfile
    \/ GetStudentFormations
    \/ GetStudentSchedule
    \/ VerifyToken
    \/ RefreshToken

SpecOps == Init /\ [][NextOps]_vars

\* The cached operation alone, as time passes
NextCache ==
    \/ GetStudentProfile
    \/ Tick

\* get_student_profile never reads api_key: one setting of it is enough
InitCache == Init /\ Truthy(api_key)

SpecCache == InitCache /\ [][NextCache]_vars

----------------------------------------------------------------------------
(* Properties *)

DomainOps ==
    {"authenticate_student", "get_student_profile", "get_student_formations",
     "get_student_schedule", "verify_token", "refresh_token"}

Is2xx(status) == 200 <= status /\ status <= 299

\* the step is an invocation of get_student_profile, recorded in last'
ProfileStep == now' = now /\ last'.op = "get_student_profile"

\* the recorded invocation fetched a payload with a successful request
FetchedOK(c) ==
    /\ c.op = "get_student_profile"
    /\ c.exc = "none"
    /\ Len(c.sent) = 1
    /\ c.outcome.kind = "response"
    /\ Is2xx(c.outcome.status)

\* the result shape {success: false, error: <message>}
IsFailure(v) ==
    /\ v.type = "dict"
    /\ Keys(v) = {"success", "error"}
    /\ Get(v, "success", PyNone) = PyBool(FALSE)

\* the transport step of a request answered by o fails
TransportFails(o) == ~Truthy(base_url) \/ o.kind # "response" \/ ~Is2xx(o.status)

\* C1: when get_student_profile is called again with the same token less
\* than 300 seconds after a call that fetched a payload successfully, the
\* second call sends no request (one request in total) and returns the
\* payload of the first call, whatever the server would answer now.
C1_SecondCallServedFromCache ==
    [][ (ProfileStep /\ FetchedOK(last) /\ last'.token = last.token
            /\ now - last.time < TTL)
        => (last'.exc = "none" /\ last'.sent = <<>> /\ last'.ret = last.ret) ]_vars

\* C2: a cache hit sends no request and leaves the cache, expiry included,
\* as it was; every entry written expires 300 seconds after the fetch that
\* wrote it; a call that finds the key's entry expired sends a request and,
\* when it succeeds, replaces the entry by the fresh payload.
C2_EntryLivesForTTL ==
    [][ ProfileStep =>
        LET key == CacheKey(last'.token)
            old == {e \in cache : e.key = key}
            new == {e \in cache' : e.key = key}
        IN /\ (\E e \in old : now < e.exp /\ Truthy(e.value))
                  => (cache' = cache /\ last'.sent = <<>>)
           /\ (old # {} /\ \A e \in old : e.exp <= now)
                  => /\ Len(last'.sent) = 1
                     /\ (last'.exc = "none" /\ last'.outcome.kind = "response"
                            /\ Is2xx(last'.outcome.status))
                        => new = {[key |-> key, value |-> last'.ret, exp |-> now + TTL]}
           /\ \A e \in cache' \ cache : e.exp = now + TTL ]_vars

\* C2 witness: a call found the entry expired, sent a request and wrote
\* the fresh payload with a new expiry.
C2_Witness ==
    /\ last.op = "get_student_profile"
    /\ last.lookup = "expired"
    /\ last.time = now
    /\ Len(last.sent) = 1
    /\ \E e \in cache : e.key = CacheKey(last.token) /\ e.value = last.ret
                         /\ e.exp = now + TTL

\* C3: when the transport step of get_student_profile fails, the call
\* returns {success: false, error: <message>} and the cache is unchanged.
C3_FailureLeavesCache ==
    [][ (ProfileStep /\ ~Truthy(cache_get(CacheKey(last'.token)))
            /\ TransportFails(last'.outcome))
        => (last'.exc = "none" /\ IsFailure(last'.ret) /\ cache' = cache) ]_vars

\* C4: with no API key configured authenticate_student returns exactly
\* {success: false, error: "API key not configured"} and sends no request.
C4_NoKeyNoRequest ==
    (last.op = "authenticate_student" /\ ~Truthy(api_key))
    => /\ last.exc = "none"
       /\ last.ret = Dict({<<"success", PyBool(FALSE)>>,
                           <<"error", PyStr("API key not configured")>>})
       /\ last.sent = <<>>

\* C4 witness: authenticate_student ran with no API key and a base URL.
C4_Witness ==
    /\ last.op = "authenticate_student"
    /\ api_key = PyNone
    /\ Truthy(base_url)
    /\ last.sent = <<>>

\* C5: authenticate_student never raises: it always returns a result with
\* a boolean success field.
C5_AuthenticateNeverRaises ==
    last.op = "authenticate_student"
    => /\ last.exc = "none"
       /\ last.ret.type = "dict"
       /\ Get(last.ret, "success", PyNone).type = "bool"

\* C6: verify_token never raises and returns true exactly when the request
\* for /auth/me was answered with a 2xx status.
C6_VerifyIffSuccess ==
    last.op = "verify_token"
    => /\ last.exc = "none"
       /\ last.ret = PyBool(Truthy(base_url) /\ last.outcome.kind = "response"
                            /\ Is2xx(last.outcome.status))

\* C7: _make_request returns the parsed body for every 2xx response and
\* fails with an API error carrying the body's error field (or "HTTP
\* <status>"), the status and the parsed body for every other response.
C7_ClassifiesByStatus ==
    (last.op = "_make_request" /\ Truthy(base_url) /\ last.outcome.kind = "response")
    => LET o == last.outcome
           parsed == ParseBody(o)
       IN IF Is2xx(o.status)
          THEN last.exc = "none" /\ last.ret = parsed
          ELSE /\ last.exc = "SystemeCalculAPIError"
               /\ last.error.message =
                      (IF parsed.type = "dict" /\ "error" \in Keys(parsed)
                       THEN Get(parsed, "error", PyNone)
                       ELSE PyStr("HTTP " \o ToString(o.status)))
               /\ last.error.status_code = PyInt(o.status)
               /\ last.error.response_data = parsed

\* C8: an invocation of a domain operation sends at most one request, also
\* when that request fails, and none when the base URL is not configured.
C8_AtMostOneRequest ==
    last.op \in DomainOps
    => /\ Len(last.sent) <= 1
       /\ ~Truthy(base_url) => last.sent = <<>>

\* C8 witness: a domain operation whose one request timed out reported
\* the failure.
C8_Witness ==
    /\ last.op = "get_student_formations"
    /\ last.outcome.kind = "Timeout"
    /\ Len(last.sent) = 1
    /\ "error" \in Keys(last.ret)

\* C9: a result returned by authenticate_student is either a success
\* result (success, student, token, expires_in) or a failure result
\* (success, error), never a mix.
C9_AuthResultShape ==
    (last.op = "authenticate_student" /\ last.exc = "none")
    => \/ /\ Keys(last.ret) = {"success", "student", "token", "expires_in"}
          /\ Get(last.ret, "success", PyNone) = PyBool(TRUE)
       \/ /\ Keys(last.ret) = {"success", "error"}
          /\ Get(last.ret, "success", PyNone) = PyBool(FALSE)

\* C9 witness: authenticate_student returned a failure taken from a 401
\* response.
C9_Witness ==
    /\ last.op = "authenticate_student"
    /\ last.exc = "none"
    /\ last.outcome.kind = "response"
    /\ last.outcome.status = 401
    /\ Len(last.sent) = 1
    /\ Get(last.ret, "error", PyNone) = PyStr("invalid credentials")

\* C10: after a successful get_student_profile(t1), a call with another
\* token t2 that has the same first 20 characters, made less than 300
\* seconds later, sends no request and returns the payload fetched with t1.
C10_PrefixCollisionServedFromCache ==
    [][ (ProfileStep /\ FetchedOK(last) /\ last'.token # last.token
            /\ Take(last'.token, PrefixLen) = Take(last.token, PrefixLen)
            /\ now - last.time < TTL)
        => (last'.exc = "none" /\ last'.sent = <<>> /\ last'.ret = last.ret) ]_vars

====
